---- MODULE Spec2Model ----
(***************************************************************************)
(* Phase 4 routine creation service (app/services/routine_creation_service *)
(* .py): Phase4Service.sanitize_datetime_objects, get_routine_for_user and *)
(* create_routine as a state machine.                                      *)
(*                                                                         *)
(* Python values are pairs <<tag, payload>>.  A str is a sequence of       *)
(* one-character strings, a list is a sequence of values and a dict is a   *)
(* sequence of <<key, value>> pairs in insertion order with distinct keys. *)
(***************************************************************************)
EXTENDS Integers, Sequences, FiniteSets, TLC

VARIABLES
    model,          \* self.model: "gemini" or "None" (genai not importable)
    pc,             \* position of the request inside create_routine
    data,           \* the payload passed to create_routine
    form_data,      \* local form_data of create_routine
    sanitized,      \* local sanitized_recommendations of get_routine_for_user
    llm_calls,      \* number of self.model.generate_content calls of this request
    response,       \* what generate_content produced: <<"text", atoms>> or <<"raise", 0>>
    routine,        \* local routine of create_routine (the parsed response)
    routine_data,   \* local routine_data of create_routine
    routine_list,   \* local routine_list of create_routine
    iter_pos,       \* number of routine_data.items() pairs already iterated
    raised,         \* the exception create_routine ended with, or NoExc
    returned,       \* the value create_routine returned, or Unset
    san_in,         \* a value handed to sanitize_datetime_objects
    san_out,        \* what it returned
    san_again       \* what it returned for san_out

vars == <<model, pc, data, form_data, sanitized, llm_calls, response, routine,
          routine_data, routine_list, iter_pos, raised, returned,
          san_in, san_out, san_again>>

---------------------------------------------------------------------------
(* Bounds *)

MaxSteps == 2       \* most entries in a step collection of an LLM response
MaxDepth == 2       \* deepest nesting of a sanitizer input

---------------------------------------------------------------------------
(* Python values *)

None == <<"none", 0>>
Unset == <<"unset", 0>>          \* a local that has not been assigned
Absent == <<"absent", 0>>        \* a key the payload does not have
PyStr(cs) == <<"str", cs>>
PyInt(n) == <<"int", n>>
PyBool(b) == <<"bool", b>>
PyList(xs) == <<"list", xs>>
PyDict(items) == <<"dict", items>>
DateTime(d) == <<"datetime", d>> \* datetime(2024, 1, d)
Date(d) == <<"date", d>>         \* date(2024, 1, d): has isoformat, is no datetime

IsDict(v) == v[1] = "dict"
IsList(v) == v[1] = "list"

\* key in d
HasKey(d, key) == \E n \in 1..Len(d[2]) : d[2][n][1] = key

\* d[key]
GetItem(d, key) == d[2][CHOOSE n \in 1..Len(d[2]) : d[2][n][1] = key][2]

\* d[key] = value: replaces in place, or appends a new key at the end
SetItem(d, key, value) ==
    IF HasKey(d, key)
    THEN PyDict([n \in 1..Len(d[2]) |->
                 IF d[2][n][1] = key THEN <<key, value>> ELSE d[2][n]])
    ELSE PyDict(Append(d[2], <<key, value>>))

\* bool(v) of a value
Truthy(v) ==
    CASE v[1] = "none" -> FALSE
      [] v[1] = "absent" -> FALSE
      [] v[1] = "bool" -> v[2]
      [] v[1] = "int" -> v[2] # 0
      [] v[1] \in {"str", "list", "dict"} -> Len(v[2]) > 0
      [] OTHER -> TRUE

---------------------------------------------------------------------------
(* Characters and str methods *)

LowerLetters == <<"a","b","c","d","e","f","g","h","i","j","k","l","m",
                  "n","o","p","q","r","s","t","u","v","w","x","y","z">>
UpperLetters == <<"A","B","C","D","E","F","G","H","I","J","K","L","M",
                  "N","O","P","Q","R","S","T","U","V","W","X","Y","Z">>
Digits == <<"0","1","2","3","4","5","6","7","8","9">>

IsLower(c) == \E n \in 1..26 : LowerLetters[n] = c
IsUpper(c) == \E n \in 1..26 : UpperLetters[n] = c
IsCased(c) == IsLower(c) \/ IsUpper(c)
Upper(c) == IF IsLower(c)
            THEN UpperLetters[CHOOSE n \in 1..26 : LowerLetters[n] = c] ELSE c
Lower(c) == IF IsUpper(c)
            THEN LowerLetters[CHOOSE n \in 1..26 : UpperLetters[n] = c] ELSE c

\* s.replace(old, new) for one-character old and new
Replace(s, old, new) == [n \in 1..Len(s) |-> IF s[n] = old THEN new ELSE s[n]]

\* s.capitalize()
Capitalize(s) ==
    [n \in 1..Len(s) |-> IF n = 1 THEN Upper(s[n]) ELSE Lower(s[n])]

\* s.title(): a cased character is upper-cased when the character before it is
\* uncased (or there is none), lower-cased otherwise
Title(s) ==
    [n \in 1..Len(s) |->
        IF n > 1 /\ IsCased(s[n-1]) THEN Lower(s[n]) ELSE Upper(s[n])]

\* str(n) for n >= 0
RECURSIVE IntToStr(_)
IntToStr(n) ==
    IF n < 10 THEN <<Digits[n + 1]>>
    ELSE Append(IntToStr(n \div 10), Digits[(n % 10) + 1])

StartsWith(s, prefix) ==
    Len(s) >= Len(prefix) /\ SubSeq(s, 1, Len(prefix)) = prefix

RECURSIVE LStrip(_, _)
LStrip(s, chars) ==
    IF Len(s) > 0 /\ s[1] \in chars THEN LStrip(Tail(s), chars) ELSE s

RECURSIVE RStrip(_, _)
RStrip(s, chars) ==
    IF Len(s) > 0 /\ s[Len(s)] \in chars
    THEN RStrip(SubSeq(s, 1, Len(s) - 1), chars) ELSE s

\* s.strip(chars)
Strip(s, chars) == RStrip(LStrip(s, chars), chars)

---------------------------------------------------------------------------
(* String literals of the source *)

K_routine == <<"r","o","u","t","i","n","e">>
K_skincare_routine == <<"s","k","i","n","c","a","r","e","_","r","o","u","t","i","n","e">>
K_product_type == <<"p","r","o","d","u","c","t","_","t","y","p","e">>
K_name == <<"n","a","m","e">>
K_tag == <<"t","a","g">>
K_description == <<"d","e","s","c","r","i","p","t","i","o","n">>
K_instructions == <<"i","n","s","t","r","u","c","t","i","o","n","s">>
K_duration == <<"d","u","r","a","t","i","o","n">>
K_waiting_time == <<"w","a","i","t","i","n","g","_","t","i","m","e">>
K_days == <<"d","a","y","s">>
K_time == <<"t","i","m","e">>
S_custom == <<"c","u","s","t","o","m">>
S_morning == <<"m","o","r","n","i","n","g">>
S_apply_as_directed == <<"A","p","p","l","y"," ","a","s"," ","d","i","r","e","c","t","e","d">>
S_step == <<"S","t","e","p"," ">>
S_apply == <<"A","p","p","l","y"," ">>
Weekdays == << <<"m","o","n","d","a","y">>,
               <<"t","u","e","s","d","a","y">>,
               <<"w","e","d","n","e","s","d","a","y">>,
               <<"t","h","u","r","s","d","a","y">>,
               <<"f","r","i","d","a","y">>,
               <<"s","a","t","u","r","d","a","y">>,
               <<"s","u","n","d","a","y">> >>

required_fields == <<K_name, K_tag, K_description, K_instructions,
                     K_duration, K_waiting_time, K_days, K_time>>

DefaultDuration == 30
DefaultWaitingTime == 300

---------------------------------------------------------------------------
(* Exceptions *)

NoExc == [type |-> "none", status_code |-> 0, detail |-> <<>>]
HTTPException(status, detail) ==
    [type |-> "HTTPException", status_code |-> status, detail |-> detail]
Exception(type, message) ==
    [type |-> type, status_code |-> 0, detail |-> message]

\* str(e): an HTTPException prints as "<status_code>: <detail>", any other
\* exception as its message.  Messages are sequences of text pieces.
ExcStr(e) ==
    IF e.type = "HTTPException"
    THEN <<ToString(e.status_code), ": ">> \o e.detail
    ELSE e.detail

\* except Exception in get_routine_for_user
InnerCatch(e) == HTTPException(500, <<"Failed to create skincare routine">>)

\* except Exception in create_routine, with the f-string's prefix dropped
OuterCatchNoPrefix(e) == HTTPException(500, ExcStr(e))

\* except Exception in create_routine
OuterCatch(e) ==
    HTTPException(500, <<"Failed to create skincare routine", ": ">> \o ExcStr(e))

---------------------------------------------------------------------------
(* 4.1 Sanitizer *)

DatePrefix == <<"2","0","2","4","-","0","1","-">>
MidnightSuffix == <<"T","0","0",":","0","0",":","0","0">>
Pad2(n) == IF n < 10 THEN <<"0">> \o IntToStr(n) ELSE IntToStr(n)

\* v.isoformat() of a datetime or a date
isoformat(v) ==
    IF v[1] = "datetime"
    THEN PyStr(DatePrefix \o Pad2(v[2]) \o MidnightSuffix)
    ELSE PyStr(DatePrefix \o Pad2(v[2]))

\* hasattr(v, 'isoformat')
HasIsoformat(v) == v[1] \in {"datetime", "date"}

RECURSIVE sanitize_datetime_objects(_)

\* the sanitizer without the isinstance(data, list) branch
SanitizeSkipLists(d) ==
    IF d[1] = "datetime" THEN isoformat(d)
    ELSE IF d[1] = "dict"
    THEN PyDict([n \in 1..Len(d[2]) |->
            <<d[2][n][1], sanitize_datetime_objects(d[2][n][2])>>])
    ELSE IF HasIsoformat(d) THEN isoformat(d)
    ELSE d

sanitize_datetime_objects(d) ==
    IF d[1] = "datetime" THEN isoformat(d)
    ELSE IF d[1] = "dict"
    THEN PyDict([n \in 1..Len(d[2]) |->
            <<d[2][n][1], sanitize_datetime_objects(d[2][n][2])>>])
    ELSE IF d[1] = "list"
    THEN PyList([n \in 1..Len(d[2]) |-> sanitize_datetime_objects(d[2][n])])
    ELSE IF HasIsoformat(d) THEN isoformat(d)
    ELSE d

---------------------------------------------------------------------------
(* 4.3 LLM client adapter *)

\* The response text is a sequence of atoms: single characters, and JSON
\* documents (the text json.dumps gives for a value, as one atom).
Ch(c) == <<"ch", c>>
DocAtom(v) == <<"doc", v>>
Whitespace == {Ch("SP"), Ch("NL")}
Backtick == Ch("BT")
Fence == <<Backtick, Backtick, Backtick>>
JsonTag == <<Ch("j"), Ch("s"), Ch("o"), Ch("n")>>

\* lines 138-143: the text stripped of whitespace, code fence and json tag
CleanResponse(text) ==
    LET raw0 == Strip(text, Whitespace) IN
    IF StartsWith(raw0, Fence)
    THEN LET raw1 == Strip(Strip(raw0, {Backtick}), Whitespace) IN
         IF StartsWith(raw1, JsonTag)
         THEN Strip(SubSeq(raw1, 5, Len(raw1)), Whitespace)
         ELSE raw1
    ELSE raw0

\* json.loads(raw) succeeds on exactly one document
JsonParses(raw) == Len(raw) = 1 /\ raw[1][1] = "doc"
JsonLoads(raw) == raw[1][2]

---------------------------------------------------------------------------
(* 4.4 Routine normalizer *)

\* category.replace('_', ' ').capitalize()
TagDefaultCapitalized(category) == PyStr(Capitalize(Replace(category, "_", " ")))

\* line 196: category.replace('_', ' ').title()
TagDefault(category) == PyStr(Title(Replace(category, "_", " ")))

\* lines 193-211: the default of a missing field
DefaultFor(field, category, list) ==
    CASE field = K_name -> PyStr(S_step \o IntToStr(Len(list) + 1))
      [] field = K_tag -> TagDefault(category)
      [] field = K_description -> PyStr(S_apply \o Replace(category, "_", " "))
      [] field = K_instructions -> PyList(<<PyStr(S_apply_as_directed)>>)
      [] field = K_duration -> PyInt(DefaultDuration)
      [] field = K_waiting_time -> PyInt(DefaultWaitingTime)
      [] field = K_days ->
            PyDict([n \in 1..Len(Weekdays) |-> <<Weekdays[n], PyBool(TRUE)>>])
      [] field = K_time -> PyList(<<PyStr(S_morning)>>)

\* lines 190-211: the loop over required_fields, from field number k on
RECURSIVE FillDefaults(_, _, _, _)
FillDefaults(step_data, category, list, k) ==
    IF k > Len(required_fields) THEN step_data
    ELSE LET field == required_fields[k] IN
         FillDefaults(
            IF HasKey(step_data, field) THEN step_data
            ELSE SetItem(step_data, field, DefaultFor(field, category, list)),
            category, list, k + 1)

\* "skincare_routine" looked up before "routine"
SelectedKeySkincareFirst(parsed) ==
    IF HasKey(parsed, K_skincare_routine) THEN K_skincare_routine
    ELSE IF HasKey(parsed, K_routine) THEN K_routine
    ELSE <<>>

\* lines 177-183: the key routine_data is taken from; <<>> is the dict itself
SelectedKey(parsed) ==
    IF HasKey(parsed, K_routine) THEN K_routine
    ELSE IF HasKey(parsed, K_skincare_routine) THEN K_skincare_routine
    ELSE <<>>

SelectRoutineData(parsed) ==
    IF SelectedKey(parsed) = <<>> THEN parsed
    ELSE GetItem(parsed, SelectedKey(parsed))

\* routine_list with the step put in front
PrependStep(list, step_data) == <<step_data>> \o list

\* line 213: routine_list.append(step_data)
AppendStep(list, step_data) == Append(list, step_data)

\* step_data is the object inside routine_data, which is routine or the object
\* inside routine: the defaults written into it show in both
WriteBack(collection, n, step_data) ==
    PyDict([collection[2] EXCEPT ![n] = <<collection[2][n][1], step_data>>])

RoutineAfterWrite(parsed, collection) ==
    IF SelectedKey(parsed) = <<>> THEN collection
    ELSE SetItem(parsed, SelectedKey(parsed), collection)

\* lines 221-224
RoutineResult(list) ==
    PyDict(<< <<K_product_type, PyStr(S_custom)>>, <<K_routine, PyList(list)>> >>)

---------------------------------------------------------------------------
(* Inputs *)

K_skin_type == <<"s","k","i","n","_","t","y","p","e">>
K_goals == <<"g","o","a","l","s">>
K_created_at == <<"c","r","e","a","t","e","d","_","a","t">>
K_note == <<"n","o","t","e">>
C_hydrating_toner == <<"h","y","d","r","a","t","i","n","g","_","t","o","n","e","r">>
C_cleanser == <<"c","l","e","a","n","s","e","r">>
C_spf_UV == <<"s","p","f","_","U","V">>

\* the payload's form_data: missing, well-formed, and with a skin_type that is
\* no list
ValidForm ==
    PyDict(<< <<K_skin_type, PyList(<<PyStr(<<"o","i","l","y">>)>>)>>,
              <<K_goals, PyList(<<PyStr(<<"h","y","d","r","a","t","i","o","n">>)>>)>> >>)
MalformedForm == PyDict(<< <<K_skin_type, PyInt(5)>> >>)
FormDatas == {Absent, ValidForm, MalformedForm}

\* FormData(**form_data) validates: skin_type and goals are lists
FormDataValid(fd) ==
    /\ IsDict(fd)
    /\ HasKey(fd, K_skin_type) /\ IsList(GetItem(fd, K_skin_type))
    /\ HasKey(fd, K_goals) /\ IsList(GetItem(fd, K_goals))

\* the payload's product_recommendations
Recommendations ==
    { Absent,
      PyDict(<<>>),
      PyDict(<< <<C_cleanser, PyDict(<< <<K_name, PyStr(<<"X">>)>> >>)>> >>),
      PyDict(<< <<C_cleanser,
                  PyDict(<< <<K_name, PyStr(<<"X">>)>>,
                            <<K_created_at, DateTime(1)>>,
                            <<K_note, PyList(<<Date(2), PyInt(1)>>)>> >>)>> >>) }

Models == {"gemini", "None"}

Categories == {C_hydrating_toner, C_cleanser, C_spf_UV}

AllDays == PyDict([n \in 1..Len(Weekdays) |-> <<Weekdays[n], PyBool(TRUE)>>])
FullStep ==
    PyDict(<< <<K_name, PyStr(<<"X">>)>>,
              <<K_tag, PyStr(<<"C","l","e","a","n","s","e","r">>)>>,
              <<K_description, PyStr(<<"d">>)>>,
              <<K_instructions, PyList(<<PyStr(<<"a">>)>>)>>,
              <<K_duration, PyInt(45)>>,
              <<K_waiting_time, PyInt(900)>>,
              <<K_days, AllDays>>,
              <<K_time, PyList(<<PyStr(S_morning), PyStr(<<"n","i","g","h","t">>)>>)>> >>)
PartialStep == PyDict(<< <<K_tag, None>>, <<K_duration, PyInt(45)>> >>)
EmptyStep == PyDict(<<>>)
StepDatas == {FullStep, PartialStep, EmptyStep, PyStr(<<"n","/","a">>), None}

\* category -> step data collections with distinct categories
Entries == Categories \X StepDatas
Collections ==
    UNION { { c \in [1..n -> Entries] :
                \A a, b \in 1..n : a # b => c[a][1] # c[b][1] } : n \in 0..MaxSteps }

OneStep == PyDict(<< <<C_cleanser, EmptyStep>> >>)

\* what json.loads can return
Docs ==
    { PyDict(c) : c \in Collections }
    \cup { PyDict(<< <<K_routine, PyDict(c)>>, <<K_note, EmptyStep>> >>) : c \in Collections }
    \cup { PyDict(<< <<K_note, EmptyStep>>, <<K_skincare_routine, PyDict(c)>> >>) : c \in Collections }
    \cup { PyDict(<< <<K_skincare_routine, OneStep>>, <<K_routine, PyDict(c)>> >>) : c \in Collections }
    \cup { PyDict(<< <<K_routine, v>> >>) : v \in {PyList(<<FullStep>>), PyStr(<<"x">>), None} }
    \cup { PyDict(<< <<K_skincare_routine, v>> >>) : v \in {PyList(<<>>), PyInt(5)} }
    \cup { PyDict(<< <<K_routine, None>>, <<K_skincare_routine, OneStep>> >>) }
    \cup { PyList(<<>>), PyList(<<FullStep>>), PyList(<<PyInt(1), EmptyStep>>),
           PyStr(<<"x">>), PyInt(5), PyBool(TRUE), None }

SP == Ch("SP")
NL == Ch("NL")
FencedDocs == { PyDict(<< <<C_cleanser, FullStep>> >>), PyList(<<>>), OneStep }

\* the texts generate_content answers with
Texts ==
    { <<DocAtom(d)>> : d \in Docs }
    \cup { Fence \o JsonTag \o <<NL, DocAtom(d), NL>> \o Fence : d \in FencedDocs }
    \cup { Fence \o <<NL, DocAtom(d), NL>> \o Fence : d \in FencedDocs }
    \cup { Fence \o <<SP>> \o JsonTag \o <<DocAtom(d)>> : d \in FencedDocs }
    \cup { <<SP, DocAtom(d), NL>> : d \in FencedDocs }
    \cup { JsonTag \o <<NL, DocAtom(d)>> : d \in FencedDocs }
    \cup { <<DocAtom(d), Ch("x")>> : d \in FencedDocs }
    \cup { <<>>, <<SP, NL>>, Fence \o Fence, Fence \o JsonTag \o <<NL>> \o Fence,
           Fence \o <<NL>> \o Fence, <<Ch("x")>>, JsonTag,
           Fence \o <<Ch("x")>> \o Fence }

LLMResults == { <<"text", t>> : t \in Texts } \cup { <<"raise", <<>> >> }

\* nested sanitizer inputs
Leaves == { None, PyInt(1), PyStr(<<"a">>), PyList(<<>>), PyDict(<<>>),
            DateTime(1), Date(2) }
RECURSIVE Values(_)
Values(depth) ==
    IF depth = 0 THEN Leaves
    ELSE LET V == Values(depth - 1) IN
         V \cup { PyList(<<v>>) : v \in V }
           \cup { PyList(<<v, w>>) : v \in V, w \in {DateTime(2), PyInt(1)} }
           \cup { PyDict(<< <<K_name, v>> >>) : v \in V }
           \cup { PyDict(<< <<K_name, v>>, <<K_created_at, w>> >>) :
                     v \in V, w \in {DateTime(2), PyStr(<<"a">>)} }

---------------------------------------------------------------------------
(* The service *)

\* data.get(key, {})
DataGet(value) == IF value = Absent THEN PyDict(<<>>) ELSE value

\* if product_recommendations is None
RecommendationsMissingNoneOnly(recommendations) == recommendations = None

\* line 166: not product_recommendations
RecommendationsMissing(recommendations) == ~Truthy(recommendations)

\* __init__: the model handle exists when genai could be imported
Init ==
    /\ model \in Models
    /\ pc = "idle"
    /\ data = Unset
    /\ form_data = Unset
    /\ sanitized = Unset
    /\ llm_calls = 0
    /\ response = Unset
    /\ routine = Unset
    /\ routine_data = Unset
    /\ routine_list = <<>>
    /\ iter_pos = 0
    /\ raised = NoExc
    /\ returned = Unset
    /\ san_in = Unset /\ san_out = Unset /\ san_again = Unset

\* an exception leaves create_routine through its except clause
Raise(e) == raised' = OuterCatch(e) /\ pc' = "done"

\* create_routine(data) is called; the locals of the last request are gone
Request ==
    /\ pc \in {"idle", "done"}
    /\ \E fd \in FormDatas, pr \in Recommendations :
          data' = [form_data |-> fd, product_recommendations |-> pr]
    /\ pc' = "form_data"
    /\ form_data' = Unset /\ sanitized' = Unset /\ llm_calls' = 0
    /\ response' = Unset /\ routine' = Unset /\ routine_data' = Unset
    /\ routine_list' = <<>> /\ iter_pos' = 0
    /\ raised' = NoExc /\ returned' = Unset
    /\ UNCHANGED <<model, san_in, san_out, san_again>>

\* line 163
CreateFormData ==
    /\ pc = "form_data"
    /\ LET arg == DataGet(data.form_data) IN
       IF FormDataValid(arg)
       THEN form_data' = arg /\ pc' = "recommendations" /\ UNCHANGED raised
       ELSE /\ Raise(Exception("ValidationError", <<"validation errors for FormData">>))
            /\ UNCHANGED form_data
    /\ UNCHANGED <<model, data, sanitized, llm_calls, response, routine,
                   routine_data, routine_list, iter_pos, returned,
                   san_in, san_out, san_again>>

\* lines 164-167
CheckRecommendations ==
    /\ pc = "recommendations"
    /\ IF RecommendationsMissing(DataGet(data.product_recommendations))
       THEN Raise(HTTPException(400, <<"No product recommendations provided">>))
       ELSE pc' = "sanitize" /\ UNCHANGED raised
    /\ UNCHANGED <<model, data, form_data, sanitized, llm_calls, response,
                   routine, routine_data, routine_list, iter_pos, returned,
                   san_in, san_out, san_again>>

\* lines 57-131: get_routine_for_user sanitizes and renders the prompt
BuildPrompt ==
    /\ pc = "sanitize"
    /\ sanitized' = sanitize_datetime_objects(DataGet(data.product_recommendations))
    /\ pc' = "model"
    /\ UNCHANGED <<model, data, form_data, llm_calls, response, routine,
                   routine_data, routine_list, iter_pos, raised, returned,
                   san_in, san_out, san_again>>

\* lines 134-135
CheckModel ==
    /\ pc = "model"
    /\ IF model = "None"
       THEN Raise(InnerCatch(HTTPException(500,
                <<"AI model not available. Please install google-generativeai package.">>)))
       ELSE pc' = "generate" /\ UNCHANGED raised
    /\ UNCHANGED <<model, data, form_data, sanitized, llm_calls, response,
                   routine, routine_data, routine_list, iter_pos, returned,
                   san_in, san_out, san_again>>

\* line 137
GenerateContent ==
    /\ pc = "generate"
    /\ llm_calls' = llm_calls + 1
    /\ \E r \in LLMResults :
          /\ response' = r
          /\ IF r[1] = "raise"
             THEN Raise(InnerCatch(Exception("Exception", <<"generate_content failed">>)))
             ELSE pc' = "parse" /\ UNCHANGED raised
    /\ UNCHANGED <<model, data, form_data, sanitized, routine, routine_data,
                   routine_list, iter_pos, returned, san_in, san_out, san_again>>

\* lines 138-151
ParseResponse ==
    /\ pc = "parse"
    /\ LET raw == CleanResponse(response[2]) IN
       IF Len(raw) = 0
       THEN /\ Raise(InnerCatch(Exception("ValueError",
                   <<"Received an empty response from the AI model.">>)))
            /\ UNCHANGED routine
       ELSE IF ~JsonParses(raw)
       THEN /\ Raise(InnerCatch(Exception("JSONDecodeError", <<"Expecting value">>)))
            /\ UNCHANGED routine
       ELSE routine' = JsonLoads(raw) /\ pc' = "normalize" /\ UNCHANGED raised
    /\ UNCHANGED <<model, data, form_data, sanitized, llm_calls, response,
                   routine_data, routine_list, iter_pos, returned,
                   san_in, san_out, san_again>>

\* lines 172-186 and 217-218
BeginNormalize ==
    /\ pc = "normalize"
    /\ iter_pos' = 0
    /\ IF IsDict(routine)
       THEN /\ routine_data' = SelectRoutineData(routine)
            /\ routine_list' = <<>>
            /\ IF ~IsDict(routine_data')
               THEN Raise(Exception("AttributeError",
                        <<"object has no attribute 'items'">>))
               ELSE /\ pc' = IF Len(routine_data'[2]) = 0 THEN "return" ELSE "loop"
                    /\ UNCHANGED raised
       ELSE /\ routine_list' = IF IsList(routine) THEN routine[2] ELSE <<routine>>
            /\ pc' = "return"
            /\ UNCHANGED <<routine_data, raised>>
    /\ UNCHANGED <<model, data, form_data, sanitized, llm_calls, response,
                   routine, returned, san_in, san_out, san_again>>

\* lines 186-216: one category, step_data pair of routine_data.items()
ProcessCategory ==
    /\ pc = "loop"
    /\ LET n == iter_pos + 1
           category == routine_data[2][n][1]
           step_data == routine_data[2][n][2]
           filled == FillDefaults(step_data, category, routine_list, 1)
       IN /\ IF IsDict(step_data)
             THEN /\ routine_list' = AppendStep(routine_list, filled)
                  /\ routine_data' = WriteBack(routine_data, n, filled)
                  /\ routine' = RoutineAfterWrite(routine, routine_data')
             ELSE UNCHANGED <<routine_list, routine_data, routine>>
          /\ iter_pos' = n
          /\ pc' = IF n = Len(routine_data[2]) THEN "return" ELSE "loop"
    /\ UNCHANGED <<model, data, form_data, sanitized, llm_calls, response,
                   raised, returned, san_in, san_out, san_again>>

\* lines 220-224
Return ==
    /\ pc = "return"
    /\ returned' = RoutineResult(routine_list)
    /\ pc' = "done"
    /\ UNCHANGED <<model, data, form_data, sanitized, llm_calls, response,
                   routine, routine_data, routine_list, iter_pos, raised,
                   san_in, san_out, san_again>>

Next ==
    \/ Request
    \/ CreateFormData
    \/ CheckRecommendations
    \/ BuildPrompt
    \/ CheckModel
    \/ GenerateContent
    \/ ParseResponse
    \/ BeginNormalize
    \/ ProcessCategory
    \/ Return

Spec == Init /\ [][Next]_vars

---------------------------------------------------------------------------
(* The sanitizer on its own: applied to a nested value, then to its result *)

SanitizerInit ==
    /\ model \in Models
    /\ pc = "sanitize_input"
    /\ data = Unset /\ form_data = Unset /\ sanitized = Unset
    /\ llm_calls = 0 /\ response = Unset /\ routine = Unset
    /\ routine_data = Unset /\ routine_list = <<>> /\ iter_pos = 0
    /\ raised = NoExc /\ returned = Unset
    /\ san_in \in Values(MaxDepth)
    /\ san_out = Unset /\ san_again = Unset

SanitizeInput ==
    /\ pc = "sanitize_input"
    /\ san_out' = sanitize_datetime_objects(san_in)
    /\ pc' = "sanitize_output"
    /\ UNCHANGED <<model, data, form_data, sanitized, llm_calls, response,
                   routine, routine_data, routine_list, iter_pos, raised,
                   returned, san_in, san_again>>

SanitizeOutput ==
    /\ pc = "sanitize_output"
    /\ san_again' = sanitize_datetime_objects(san_out)
    /\ pc' = "sanitized"
    /\ UNCHANGED <<model, data, form_data, sanitized, llm_calls, response,
                   routine, routine_data, routine_list, iter_pos, raised,
                   returned, san_in, san_out>>

SanitizerNext == SanitizeInput \/ SanitizeOutput

SanitizerSpec == SanitizerInit /\ [][SanitizerNext]_vars

---------------------------------------------------------------------------
(* Claims *)

RecommendationsEmpty == data.product_recommendations \in {Absent, PyDict(<<>>)}
FormUsable == data.form_data = ValidForm
ClientError(e) == e.status_code \in 400..499
ServerError(e) == e.type = "HTTPException" /\ e.status_code \in 500..599
HasAllFields(step) ==
    /\ step[1] = "dict"
    /\ \A f \in {K_name, K_tag, K_description, K_instructions, K_duration,
                 K_waiting_time, K_days, K_time} :
          \E n \in 1..Len(step[2]) : step[2][n][1] = f

\* C1: a request whose product_recommendations is empty or absent ends in a
\* client error (status 400-499), whatever its form_data, never in a server error.
C1_EmptyRecommendationsClientError ==
    (pc = "done" /\ RecommendationsEmpty) =>
        (raised # NoExc /\ ClientError(raised) /\ ~ServerError(raised))

\* C2: a request whose form_data is absent or malformed ends in a
\* ValidationError passed through as a client error (status 400-499), not
\* wrapped into a server error.
C2_InvalidFormClientError ==
    (pc = "done" /\ ~FormUsable) =>
        (raised # NoExc /\ ~ServerError(raised)
         /\ (raised.type = "ValidationError" \/ ClientError(raised)))

\* C3: every element of the "routine" sequence create_routine returns is a
\* mapping with all eight required fields, whichever shape the response had.
C3_ReturnedStepsComplete ==
    (returned # Unset) =>
        \A k \in 1..Len(routine_list) : HasAllFields(routine_list[k])

\* C4: once the response has been parsed, create_routine returns a Routine and
\* raises nothing, whatever the shape of the parsed value.
C4_NormalizationNeverRaises ==
    (pc = "done" /\ routine # Unset) => (raised = NoExc /\ returned # Unset)

\* the request entered get_routine_for_user and its adapter failed: no model
\* handle, an exception from the call, a text that is empty once cleaned, or a
\* text that is no JSON document
AdapterFailed ==
    /\ pc = "done" /\ sanitized # Unset
    /\ \/ model = "None"
       \/ response[1] = "raise"
       \/ /\ response[1] = "text"
          /\ LET cleaned == CleanResponse(response[2]) IN
             Len(cleaned) = 0 \/ Len(cleaned) > 1 \/ cleaned[1][1] # "doc"

\* C5: every failure of the LLM adapter ends the request in a server error
\* (status 500) whose message starts with "Failed to create skincare routine",
\* and no Routine is returned.
C5_AdapterFailureIsServerError ==
    AdapterFailed =>
        /\ raised.type = "HTTPException" /\ raised.status_code = 500
        /\ Len(raised.detail) >= 1
        /\ raised.detail[1] = "Failed to create skincare routine"
        /\ returned = Unset

\* C5 happens: a fenced, json-tagged but empty text ended the request in an error
C5_Witness ==
    /\ AdapterFailed
    /\ response = <<"text", Fence \o JsonTag \o <<NL>> \o Fence>>
    /\ raised.status_code = 500 /\ llm_calls = 1

IsoText(v) ==
    IF v = DateTime(1)
    THEN PyStr(<<"2","0","2","4","-","0","1","-","0","1","T","0","0",":","0","0",":","0","0">>)
    ELSE IF v = DateTime(2)
    THEN PyStr(<<"2","0","2","4","-","0","1","-","0","2","T","0","0",":","0","0",":","0","0">>)
    ELSE PyStr(<<"2","0","2","4","-","0","1","-","0","2">>)

\* b is a with the timestamp leaves, and nothing else, replaced by their text
RECURSIVE OnlyTimestampsReplaced(_, _)
OnlyTimestampsReplaced(a, b) ==
    IF a[1] \in {"datetime", "date"} THEN b = IsoText(a)
    ELSE IF a[1] = "dict"
    THEN /\ b[1] = "dict" /\ Len(b[2]) = Len(a[2])
         /\ \A n \in 1..Len(a[2]) :
               /\ b[2][n][1] = a[2][n][1]
               /\ OnlyTimestampsReplaced(a[2][n][2], b[2][n][2])
    ELSE IF a[1] = "list"
    THEN /\ b[1] = "list" /\ Len(b[2]) = Len(a[2])
         /\ \A n \in 1..Len(a[2]) : OnlyTimestampsReplaced(a[2][n], b[2][n])
    ELSE b = a

Max(S) == CHOOSE m \in S : \A n \in S : n <= m
RECURSIVE Depth(_)
Depth(v) ==
    IF v[1] = "dict"
    THEN 1 + Max({0} \cup {Depth(v[2][n][2]) : n \in 1..Len(v[2])})
    ELSE IF v[1] = "list"
    THEN 1 + Max({0} \cup {Depth(v[2][n]) : n \in 1..Len(v[2])})
    ELSE 0

\* C6: the sanitizer's result has the keys, lengths, order and depth of its
\* input, with exactly the timestamp leaves replaced by their ISO-8601 text,
\* and sanitizing the result again gives an equal value.
C6_SanitizerPreservesStructure ==
    /\ pc \in {"sanitize_output", "sanitized"} =>
          /\ OnlyTimestampsReplaced(san_in, san_out)
          /\ Depth(san_out) = Depth(san_in)
    /\ pc = "sanitized" => san_again = san_out

\* C6 happens: timestamps two levels down were replaced, and the result was
\* sanitized again
C6_Witness ==
    /\ pc = "sanitized"
    /\ san_in = PyDict(<< <<K_name, PyList(<<DateTime(1), DateTime(2)>>)>> >>)
    /\ san_out # san_in
    /\ san_again = san_out

\* C7: the step collection of a mapping response is the value under "routine"
\* when that key is present, else the value under "skincare_routine" when
\* that key is present, else the mapping itself; every output step is an
\* entry of that collection.
C7_CollectionPriority ==
    (routine_data # Unset) =>
        /\ (\E n \in 1..Len(routine[2]) : routine[2][n][1] = K_routine) =>
              \E n \in 1..Len(routine[2]) : routine[2][n] = <<K_routine, routine_data>>
        /\ (/\ \A n \in 1..Len(routine[2]) : routine[2][n][1] # K_routine
            /\ \E n \in 1..Len(routine[2]) : routine[2][n][1] = K_skincare_routine) =>
              \E n \in 1..Len(routine[2]) :
                 routine[2][n] = <<K_skincare_routine, routine_data>>
        /\ (\A n \in 1..Len(routine[2]) :
               routine[2][n][1] \notin {K_routine, K_skincare_routine}) =>
              routine_data = routine
        /\ \A k \in 1..Len(routine_list) :
              \E n \in 1..iter_pos : routine_data[2][n][2] = routine_list[k]

\* C7 happens: both keys were present and the steps came from "routine"
C7_Witness ==
    /\ pc = "done" /\ returned # Unset /\ routine_data # Unset
    /\ \E n \in 1..Len(routine[2]) : routine[2][n][1] = K_routine
    /\ \E n \in 1..Len(routine[2]) : routine[2][n][1] = K_skincare_routine
    /\ Len(routine_list) = 2

\* the value json.loads returned, read off the response text
OriginalDoc ==
    LET t == response[2] IN t[CHOOSE n \in 1..Len(t) : t[n][1] = "doc"][2]
OriginalCollection ==
    IF \E n \in 1..Len(OriginalDoc[2]) : OriginalDoc[2][n][1] = K_routine
    THEN OriginalDoc[2][CHOOSE n \in 1..Len(OriginalDoc[2]) :
                           OriginalDoc[2][n][1] = K_routine][2]
    ELSE IF \E n \in 1..Len(OriginalDoc[2]) : OriginalDoc[2][n][1] = K_skincare_routine
    THEN OriginalDoc[2][CHOOSE n \in 1..Len(OriginalDoc[2]) :
                           OriginalDoc[2][n][1] = K_skincare_routine][2]
    ELSE OriginalDoc
IsMappingEntry(e) == e[2][1] = "dict"
MappingEntries(collection) == SelectSeq(collection[2], IsMappingEntry)
IsPrefix(p, q) == Len(p) <= Len(q) /\ \A n \in 1..Len(p) : q[n] = p[n]

\* C8: for a mapping-shaped step collection the returned steps are exactly the
\* mapping-valued entries, one step each, in the collection's order; the other
\* entries are dropped and the request still returns.
C8_MappingEntriesInOrder ==
    (pc = "done" /\ routine_data # Unset /\ routine_data[1] = "dict") =>
        LET want == MappingEntries(OriginalCollection) IN
        /\ raised = NoExc
        /\ returned = PyDict(<< <<K_product_type, PyStr(S_custom)>>,
                                <<K_routine, PyList(routine_list)>> >>)
        /\ Len(routine_list) = Len(want)
        /\ \A k \in 1..Len(want) :
              /\ routine_list[k][1] = "dict"
              /\ IsPrefix(want[k][2][2], routine_list[k][2])

\* C8 happens: of two entries the first was a string and was dropped, the
\* second was kept
C8_Witness ==
    /\ pc = "done" /\ routine_data # Unset /\ routine_data[1] = "dict"
    /\ Len(OriginalCollection[2]) = 2
    /\ OriginalCollection[2][1][2][1] = "str"
    /\ Len(routine_list) = 1

StepDigits == <<"1","2","3","4","5","6","7","8","9">>
ExpectedTagText(c) ==
    IF c = C_hydrating_toner
    THEN <<"H","y","d","r","a","t","i","n","g"," ","T","o","n","e","r">>
    ELSE IF c = C_cleanser THEN <<"C","l","e","a","n","s","e","r">>
    ELSE <<"S","p","f"," ","U","v">>
ExpectedDescriptionText(c) ==
    IF c = C_hydrating_toner
    THEN <<"A","p","p","l","y"," ","h","y","d","r","a","t","i","n","g"," ","t","o","n","e","r">>
    ELSE IF c = C_cleanser THEN <<"A","p","p","l","y"," ","c","l","e","a","n","s","e","r">>
    ELSE <<"A","p","p","l","y"," ","s","p","f"," ","U","V">>
ExpectedDefault(f, c, k) ==
    CASE f = K_name -> PyStr(<<"S","t","e","p"," ", StepDigits[k]>>)
      [] f = K_tag -> PyStr(ExpectedTagText(c))
      [] f = K_description -> PyStr(ExpectedDescriptionText(c))
      [] f = K_instructions ->
            PyList(<<PyStr(<<"A","p","p","l","y"," ","a","s"," ","d","i","r","e","c","t","e","d">>)>>)
      [] f = K_duration -> PyInt(30)
      [] f = K_waiting_time -> PyInt(300)
      [] f = K_days -> AllDays
      [] f = K_time -> PyList(<<PyStr(<<"m","o","r","n","i","n","g">>)>>)
Field(step, f) == step[2][CHOOSE n \in 1..Len(step[2]) : step[2][n][1] = f][2]
HasField(step, f) == \E n \in 1..Len(step[2]) : step[2][n][1] = f

\* C9: each required field of an output step is the value the parsed step data
\* gave when it gave one, and else the default: "Step N" with N the step's
\* position in the output, the category title-cased with spaces for
\* underscores, "Apply " and the category with spaces, ["Apply as directed"],
\* 30, 300, all seven weekdays true, ["morning"].
C9_FieldsKeptOrDefaulted ==
    (routine_data # Unset /\ routine_data[1] = "dict") =>
        LET want == MappingEntries(OriginalCollection) IN
        \A k \in 1..Len(routine_list) :
           \A n \in 1..Len(required_fields) :
              LET f == required_fields[n] IN
              /\ HasField(routine_list[k], f)
              /\ Field(routine_list[k], f) =
                    IF HasField(want[k][2], f) THEN Field(want[k][2], f)
                    ELSE ExpectedDefault(f, want[k][1], k)

\* C9 happens: a string entry was dropped, and the empty hydrating_toner entry
\* after it became "Step 1" tagged "Hydrating Toner"
C9_Witness ==
    /\ pc = "done" /\ routine_data # Unset /\ routine_data[1] = "dict"
    /\ Len(OriginalCollection[2]) = 2
    /\ OriginalCollection[2][1][2][1] = "str"
    /\ OriginalCollection[2][2] = <<C_hydrating_toner, PyDict(<<>>)>>
    /\ Len(routine_list) = 1
    /\ Field(routine_list[1], K_name) = PyStr(<<"S","t","e","p"," ","1">>)
    /\ Field(routine_list[1], K_tag) =
          PyStr(<<"H","y","d","r","a","t","i","n","g"," ","T","o","n","e","r">>)

\* C10: a request calls the LLM at most once, and only after form_data was
\* validated, product_recommendations was found non-empty and the model
\* handle was found to exist; when one of these fails the request ends in an
\* error with no call made.
C10_AtMostOneCallAfterChecks ==
    /\ llm_calls <= 1
    /\ llm_calls = 1 => (FormUsable /\ ~RecommendationsEmpty /\ model # "None")
    /\ (pc = "done" /\ (~FormUsable \/ RecommendationsEmpty \/ model = "None")) =>
          (llm_calls = 0 /\ raised # NoExc /\ returned = Unset)
    /\ (pc = "done" /\ raised # NoExc) => returned = Unset

\* C10 happens: the one call was made, its text did not parse, and the request
\* ended in an error without a second call
C10_Witness ==
    /\ pc = "done" /\ llm_calls = 1 /\ raised # NoExc
    /\ response = <<"text", <<Ch("x")>> >>

====
